---- MODULE Spec2Model ----
(***************************************************************************)
(* The PDF composition pipeline of the brandbook visualizer:               *)
(* handleExportPdf (js/app.js), generatePdf, captureMockups, the page      *)
(* builders and addQrCodePage (js/pdf.js, second PdfModule), switchMockup  *)
(* (js/mockups.js) and the logo part of BrandbookModule                    *)
(* (tests/visual-tests.js).                                                *)
(*                                                                         *)
(* JavaScript runs every continuation to its next await, so one action is  *)
(* one such run.  A continuation resumed by a settled promise of the       *)
(* program itself is a microtask; user events are tasks and are taken only *)
(* when no microtask is pending.                                           *)
(***************************************************************************)
EXTENDS Integers, Sequences, FiniteSets, TLC

\* ---- bounds ------------------------------------------------------------
\* Events of one behaviour: clicks on the export button, tab switches, logo
\* edits, and failures of the environment (an absent mockup node, a library
\* call that rejects or throws).
MaxEvents == 3

Gens == 1..MaxEvents

\* Largest side length, in pixels or millimetres, given to calculateFitDimensions.
MaxDim == 4

\* ---- configuration of captureMockups -----------------------------------
mockupConfigs ==
    << [id |-> "mockup-business-card", title |-> "Business Card", num |-> "05"],
       [id |-> "mockup-social-avatar", title |-> "Social Avatar", num |-> "06"],
       [id |-> "mockup-letterhead",    title |-> "Letterhead",    num |-> "07"],
       [id |-> "mockup-envelope",      title |-> "Envelope",      num |-> "08"],
       [id |-> "mockup-presentation",  title |-> "Presentation",  num |-> "09"] >>

NumMockups == Len(mockupConfigs)
Mockups == 1..NumMockups

VARIABLES
    logo,           \* currentBrandbook.logo: [svg, png], TRUE = non-null
    name,           \* currentBrandbook.meta.name, a sequence of characters
    stored,         \* localStorage[STORAGE_KEY]: << >> or << the saved [name, logo] >>
    samplePc,       \* loadSampleLogo: "idle" or "fetching"
    importLog,      \* history: how each call of importFromFile / importFromUrlData ended
    calcArgs,       \* the pure helper called and its arguments
    calcResult,     \* << >>, or << what that call returned >>
    numFonts,       \* length of fontsToLoad (the distinct font families of the profile)
    exists,         \* exists[m]: document.getElementById(id) finds the node
    active,         \* active[m]: the node carries the class 'active'
    lastSelected,   \* history: the config of the tab shown at load or switched to last
    consoleErr,     \* console.error: the wrappers stacked on the original
    btnDisabled,    \* elements.btnExportPdf.disabled
    nextGen,        \* number of the next call of handleExportPdf
    events,         \* events taken so far
    hpc,            \* handleExportPdf: "unused", "awaiting", "done"
    toast,          \* the notification handleExportPdf showed
    gpc,            \* generatePdf: the await it is suspended at
    cachedLogo,     \* generatePdf: preloadLogo() returned an image
    pages,          \* generatePdf: the pages of the jsPDF document
    saved,          \* pdf.save(fileName) returned
    rejectCause,    \* what made generatePdf reject
    qrTemp,         \* addQrCodePage: its container is in document.body
    logoPageCalls,  \* calls of addLogoPage
    qrOutcome,      \* history: how the QR code generation of addQrCodePage ended
    cpc,            \* captureMockups: the await it is suspended at
    ck,             \* captureMockups: index of config in the loop
    cFont,          \* embedFontsAsBase64: index of family in the loop
    cFile,          \* embedFontsAsBase64: 0 at the stylesheet fetch, else index of fontUrl
    css,            \* embedFontsAsBase64: css, as the font files replaced by data URIs
    embeddedCss,    \* embedFontsAsBase64: embeddedCss, one entry per family appended
    fontFailed,     \* history: the fetches of embedFontsAsBase64 that failed
    wasActive,      \* captureMockups: wasActive of the current iteration
    captures,       \* captureMockups: the captures array (indices of configs)
    staging,        \* children of tempContainer
    domIn,          \* tempContainer and overlay are in document.body
    origErr,        \* suppressCorsErrors: originalError
    rasterInFlight, \* configs with an unsettled htmlToImage.toJpeg call
    spc,            \* generateSingleMockupPdf: "idle" or the await it is suspended at
    smock,          \* generateSingleMockupPdf: index of the config of mockupId
    sWasActive,     \* captureSingleMockup: wasActive
    sDomIn,         \* captureSingleMockup: tempContainer is in document.body
    loadedFonts,    \* FontsModule: loadedFonts
    fontLinks,      \* the stylesheet links loadFont appended to document.head, in order
    zeroDims,       \* captureMockups: the captures whose img.width or img.height is 0
    sZero,          \* captureSingleMockup: img.width or img.height of its capture is 0
    PdfTiming,      \* PdfTiming: marks, durations, mockupBreakdown (their keys), enabled
    timingReports,  \* history: calls of PdfTiming.printReport
    savedDocs,      \* history: the last two documents handed to pdf.save, oldest first
    logoAtStart,    \* history: getLogoUrl() was non-null when generatePdf began
    profileChanged, \* history: the logo was edited while the generation ran
    overlapped,     \* history: a capture step ran before the early pages were done
    outcome         \* history: how the capture of each config ended

vars == << logo, name, stored, samplePc, importLog, calcArgs, calcResult, numFonts, exists, active,
           lastSelected, consoleErr, btnDisabled, nextGen,
           events, hpc, toast, gpc, cachedLogo, pages, saved,
           rejectCause, qrTemp, logoPageCalls, qrOutcome, cpc, ck, cFont, cFile, css,
           embeddedCss, fontFailed, wasActive,
           captures, staging, domIn, origErr, rasterInFlight, spc, smock,
           sWasActive, sDomIn, loadedFonts, fontLinks, zeroDims, sZero, PdfTiming, timingReports, savedDocs, logoAtStart, profileChanged, overlapped,
           outcome >>

\* the brand data store
storeVars == << logo, name, stored, samplePc >>
calcVars == << calcArgs, calcResult >>
\* what no step of the pipeline changes
pageFonts == << loadedFonts, fontLinks >>
domVars  == << exists, numFonts, calcVars, pageFonts, lastSelected, importLog >>
genVars  == << gpc, cachedLogo, pages, saved, rejectCause, qrTemp, logoPageCalls,
               qrOutcome >>
fontVars == << cFont, cFile, css, embeddedCss, fontFailed >>
capVars  == << cpc, ck, fontVars, wasActive, captures, zeroDims, staging, domIn, origErr,
               rasterInFlight, outcome >>
uiVars   == << btnDisabled, nextGen, hpc, toast >>
singleVars == << spc, smock, sWasActive, sDomIn, sZero >>
timingVars == << PdfTiming, timingReports >>

\* ---- PdfTiming ---------------------------------------------------------
\* start, end and recordMockup with their test of 'enabled' left out
IsEnabledAlways(t) == TRUE

\* if (!this.enabled) return
IsEnabled(t) == t.enabled

\* start(label): this.marks[label] = performance.now()
TimingStart(t, label) ==
    IF IsEnabled(t) THEN [t EXCEPT !.marks = @ \cup {label}] ELSE t

\* end(label): this.durations[label] = duration
TimingEnd(t, label) ==
    IF IsEnabled(t) THEN [t EXCEPT !.durations = @ \cup {label}] ELSE t

\* start(label) with end(label) right after it
TimingSpan(t, label) == TimingEnd(TimingStart(t, label), label)

\* recordMockup(mockupId, duration): this.mockupBreakdown[mockupId] = duration
recordMockup(t, mockupId) ==
    IF IsEnabled(t) THEN [t EXCEPT !.mockupBreakdown = @ \cup {mockupId}] ELSE t

\* const PdfTiming = { marks: {}, durations: {}, mockupBreakdown: {},
\*                     enabled: debugMode, ... }
NewPdfTiming(debugMode) ==
    [marks |-> {}, durations |-> {}, mockupBreakdown |-> {}, enabled |-> debugMode]

\* reset()
TimingReset(t) == [t EXCEPT !.marks = {}, !.durations = {}, !.mockupBreakdown = {}]

\* if (PdfTiming.enabled) PdfTiming.printReport()
printReport(t, n) == IF t.enabled THEN n + 1 ELSE n

\* ---- BrandbookModule ---------------------------------------------------
\* createEmptyBrandbook().meta.name and .logo
DefaultName == << "M", "y", " ", "B", "r", "a", "n", "d" >>
EmptyLogo == [svg |-> FALSE, png |-> FALSE]

getLogoUrl == logo.svg \/ logo.png

\* localStorage.setItem(STORAGE_KEY, JSON.stringify(currentBrandbook))
saveToLocalStorage(n, l) == << [name |-> n, logo |-> l] >>

\* ---- helpers of the page builders --------------------------------------
\* String(num).padStart(2, '0')
addPageNumber(num) == IF num < 10 THEN "0" \o ToString(num) ELSE ToString(num)

Page(kind, id, header, footer, parts) ==
    [kind |-> kind, id |-> id, header |-> header, footer |-> footer, parts |-> parts]

addTitlePage(cached) ==
    Page("title", "", "", "",
         {"gradient", "name", "swatches", "date"} \cup (IF cached THEN {"logo"} ELSE {}))

addColorPalettePage ==
    Page("palette", "", "01", addPageNumber(2), {"header", "swatches", "usage", "footer"})

addTypographyPage ==
    Page("typography", "", "02", addPageNumber(3), {"header", "fonts", "footer"})

addLogoPage(cached) ==
    Page("logo", "", "03", addPageNumber(4),
         {"header", "backgrounds", "footer"} \cup (IF cached THEN {"logo"} ELSE {}))

RECURSIVE MockupPagesFrom(_, _)
MockupPagesFrom(caps, pageNum) ==
    IF caps = << >> THEN << >>
    ELSE << Page("mockup", mockupConfigs[Head(caps)].id, mockupConfigs[Head(caps)].num,
                 addPageNumber(pageNum), {"header", "image", "footer"}) >>
         \o MockupPagesFrom(Tail(caps), pageNum + 1)

\* pageNum kept at module level and not set again by the next generation
addMockupPagesCounting(caps, hasLogo) ==
    MockupPagesFrom(caps, (IF hasLogo THEN 5 ELSE 4) + NumMockups * (nextGen - 2))

addMockupPagesFromCaptures(caps, hasLogo) ==
    MockupPagesFrom(caps, IF hasLogo THEN 5 ELSE 4)

QrRest == {"title", "link", "instructions", "recap", "footer"}

\* addQrCodePage up to its try block: background and header
QrPageHeader(hasLogo) ==
    Page("qr", "", IF hasLogo THEN "10" ELSE "09", "", {"header"})

\* addQrCodePage from its try block on; hasCanvas: the QR code was drawn to a canvas
QrPageFinish(page, hasCanvas, hasLogo) ==
    [page EXCEPT !.footer = addPageNumber(IF hasLogo THEN 10 ELSE 9),
                 !.parts = @ \cup QrRest
                             \cup (IF hasCanvas THEN {"panel", "barcode"} ELSE {})]

\* ---- the event loop ----------------------------------------------------
Settled(g) == gpc[g] \in {"resolved", "rejected"}

MicrotaskPending ==
    \E g \in Gens :
        \/ gpc[g] \in {"preloadNull", "early1", "early2", "afterMockups", "afterQr"}
        \/ gpc[g] = "awaitCaps" /\ cpc[g] = "done"
        \/ hpc[g] = "awaiting" /\ Settled(g)
        \/ spc \in {"null", "save"}

\* ---- initial state -----------------------------------------------------
\* no call of the pipeline has been made
InitPipeline ==
    /\ consoleErr = << >>
    /\ btnDisabled = FALSE
    /\ nextGen = 1
    /\ hpc = [g \in Gens |-> "unused"]
    /\ toast = [g \in Gens |-> "none"]
    /\ gpc = [g \in Gens |-> "unused"]
    /\ cachedLogo = [g \in Gens |-> FALSE]
    /\ pages = [g \in Gens |-> << >>]
    /\ saved = [g \in Gens |-> FALSE]
    /\ rejectCause = [g \in Gens |-> "none"]
    /\ qrTemp = [g \in Gens |-> FALSE]
    /\ logoPageCalls = [g \in Gens |-> 0]
    /\ qrOutcome = [g \in Gens |-> "none"]
    /\ cpc = [g \in Gens |-> "unused"]
    /\ ck = [g \in Gens |-> 0]
    /\ cFont = [g \in Gens |-> 0]
    /\ cFile = [g \in Gens |-> 0]
    /\ css = [g \in Gens |-> {}]
    /\ embeddedCss = [g \in Gens |-> << >>]
    /\ fontFailed = [g \in Gens |-> {}]
    /\ wasActive = [g \in Gens |-> FALSE]
    /\ captures = [g \in Gens |-> << >>]
    /\ staging = [g \in Gens |-> << >>]
    /\ domIn = [g \in Gens |-> FALSE]
    /\ origErr = [g \in Gens |-> << >>]
    /\ rasterInFlight = [g \in Gens |-> {}]
    /\ spc = "idle"
    /\ smock = 0
    /\ sWasActive = FALSE
    /\ sDomIn = FALSE
    /\ loadedFonts = {}
    /\ fontLinks = << >>
    /\ importLog = << >>
    /\ zeroDims = [g \in Gens |-> {}]
    /\ sZero = FALSE
    /\ timingReports = 0
    /\ savedDocs = << >>
    /\ logoAtStart = [g \in Gens |-> FALSE]
    /\ profileChanged = [g \in Gens |-> FALSE]
    /\ overlapped = [g \in Gens |-> FALSE]
    /\ outcome = [g \in Gens |-> [m \in Mockups |-> "pending"]]

\* no call of a pure helper
NoCall == [fn |-> "none"]

Init ==
    /\ logo \in { EmptyLogo, [svg |-> TRUE, png |-> FALSE] }
    /\ name = DefaultName
    /\ stored = << >>
    /\ samplePc = "idle"
    /\ calcArgs = NoCall
    /\ calcResult = << >>
    /\ numFonts = 2
    /\ exists \in { e \in [Mockups -> BOOLEAN] :
                      Cardinality({m \in Mockups : ~e[m]}) <= MaxEvents }
    /\ lastSelected = (CHOOSE j \in Mockups : exists[j] /\ \A i \in 1..(j - 1) : ~exists[i])
    /\ active = [m \in Mockups |-> m = lastSelected]
    /\ events = Cardinality({m \in Mockups : ~exists[m]})
    /\ \E debugMode \in BOOLEAN : PdfTiming = NewPdfTiming(debugMode)
    /\ InitPipeline

\* ---- user events -------------------------------------------------------
InFlight(g) == gpc[g] \notin {"unused", "resolved", "rejected", "collected"}

Event == /\ events < MaxEvents
         /\ events' = events + 1

UserTurn == ~MicrotaskPending /\ Event

NoteEdit == [g \in Gens |-> profileChanged[g] \/ InFlight(g)]

\* MockupsModule.switchMockup: classList.toggle('active', mockup.id === id)
switchMockup(m) ==
    /\ UserTurn
    /\ active' = [x \in Mockups |-> x = m /\ exists[x]]
    /\ lastSelected' = m
    /\ UNCHANGED << storeVars, consoleErr, profileChanged >>
    /\ UNCHANGED << exists, numFonts, calcVars, pageFonts, importLog, genVars, capVars, uiVars, singleVars, timingVars, savedDocs,
                    logoAtStart, overlapped >>

\* BrandbookModule.setLogo, at reader.onload
setLogo(isSvg) ==
    /\ UserTurn
    /\ logo' = [svg |-> isSvg, png |-> ~isSvg]
    /\ stored' = saveToLocalStorage(name, logo')
    /\ profileChanged' = NoteEdit
    /\ UNCHANGED << name, samplePc, active, consoleErr >>
    /\ UNCHANGED << domVars, genVars, capVars, uiVars, singleVars, timingVars, savedDocs,
                    logoAtStart, overlapped >>

\* handleLogoRemove -> BrandbookModule.clearLogo
clearLogo ==
    /\ UserTurn
    /\ getLogoUrl
    /\ logo' = [svg |-> FALSE, png |-> FALSE]
    /\ stored' = saveToLocalStorage(name, logo')
    /\ profileChanged' = NoteEdit
    /\ UNCHANGED << name, samplePc, active, consoleErr >>
    /\ UNCHANGED << domVars, genVars, capVars, uiVars, singleVars, timingVars, savedDocs,
                    logoAtStart, overlapped >>

\* ---- handleExportPdf ---------------------------------------------------
\* Locals of calls that have returned are unreachable; the click of the next
\* generation drops them.
GenGone(h) == Settled(h) \/ gpc[h] = "collected"
CapGone(h) == cpc[h] \in {"unused", "done", "collected"}
Keep(f, h, gone, init) == IF h < nextGen /\ gone THEN init ELSE f[h]

\* handleExportPdf without 'btn.disabled = true'
ButtonLeftEnabled == btnDisabled

\* btn.disabled = true
DisableButton == TRUE

\* The click handler up to the first await inside generatePdf (preloadLogo).
handleExportPdf(g) ==
    /\ ~MicrotaskPending
    /\ ~btnDisabled
    /\ g = nextGen
    /\ Event
    /\ nextGen' = g + 1
    /\ btnDisabled' = DisableButton
    /\ hpc' = [hpc EXCEPT ![g] = "awaiting"]
    /\ toast' = [h \in Gens |-> "none"]
    /\ gpc' = [h \in Gens |->
                 IF h = g THEN (IF getLogoUrl THEN "preloadImg" ELSE "preloadNull")
                 ELSE IF GenGone(h) THEN "collected" ELSE gpc[h]]
    /\ logoAtStart' = [h \in Gens |-> IF h = g THEN getLogoUrl
                                      ELSE Keep(logoAtStart, h, GenGone(h), FALSE)]
    /\ profileChanged' = [h \in Gens |-> IF h = g THEN FALSE
                                         ELSE Keep(profileChanged, h, GenGone(h), FALSE)]
    /\ overlapped' = [h \in Gens |-> Keep(overlapped, h, GenGone(h), FALSE)]
    /\ cachedLogo' = [h \in Gens |-> Keep(cachedLogo, h, GenGone(h), FALSE)]
    /\ pages' = [h \in Gens |-> Keep(pages, h, GenGone(h), << >>)]
    /\ saved' = [h \in Gens |-> Keep(saved, h, GenGone(h), FALSE)]
    /\ rejectCause' = [h \in Gens |-> Keep(rejectCause, h, GenGone(h), "none")]
    /\ logoPageCalls' = [h \in Gens |-> Keep(logoPageCalls, h, GenGone(h), 0)]
    /\ qrOutcome' = [h \in Gens |-> Keep(qrOutcome, h, GenGone(h), "none")]
    /\ cpc' = [h \in Gens |-> IF h < g /\ cpc[h] = "done" THEN "collected" ELSE cpc[h]]
    /\ ck' = [h \in Gens |-> Keep(ck, h, CapGone(h), 0)]
    /\ cFont' = [h \in Gens |-> Keep(cFont, h, CapGone(h), 0)]
    /\ cFile' = [h \in Gens |-> Keep(cFile, h, CapGone(h), 0)]
    /\ css' = [h \in Gens |-> Keep(css, h, CapGone(h), {})]
    /\ embeddedCss' = [h \in Gens |-> Keep(embeddedCss, h, CapGone(h), << >>)]
    /\ fontFailed' = [h \in Gens |-> Keep(fontFailed, h, CapGone(h), {})]
    /\ wasActive' = [h \in Gens |-> Keep(wasActive, h, CapGone(h), FALSE)]
    /\ captures' = [h \in Gens |-> Keep(captures, h, CapGone(h) /\ GenGone(h), << >>)]
    /\ zeroDims' = [h \in Gens |-> Keep(zeroDims, h, CapGone(h) /\ GenGone(h), {})]
    /\ staging' = [h \in Gens |-> Keep(staging, h, CapGone(h), << >>)]
    /\ origErr' = [h \in Gens |-> Keep(origErr, h, CapGone(h), << >>)]
    /\ outcome' = [h \in Gens |->
                     Keep(outcome, h, CapGone(h) /\ GenGone(h), [m \in Mockups |-> "pending"])]
    /\ PdfTiming' = TimingStart(TimingStart(TimingReset(PdfTiming), "generatePdf_total"),
                                 "preloadLogo")
    /\ UNCHANGED << storeVars, active, consoleErr, qrTemp, domIn,
                    rasterInFlight, domVars, singleVars, timingReports, savedDocs >>

\* btn.disabled = false at the end of the try block only
EnabledInTryOnly(g) == gpc[g] # "resolved"

\* finally { btn.disabled = false; ... }: the value of btn.disabled afterwards
ButtonFinally(g) == FALSE

\* try { await generatePdf(); showToast(success) } catch { showToast(error) }
\* finally { btn.disabled = false }
handleExportPdfSettle(g) ==
    /\ hpc[g] = "awaiting"
    /\ Settled(g)
    /\ toast' = [toast EXCEPT ![g] = IF gpc[g] = "resolved" THEN "success" ELSE "error"]
    /\ btnDisabled' = ButtonFinally(g)
    /\ hpc' = [hpc EXCEPT ![g] = "done"]
    /\ UNCHANGED << storeVars, active, consoleErr, events, nextGen, logoAtStart,
                    profileChanged, overlapped >>
    /\ UNCHANGED << domVars, genVars, capVars, singleVars, timingVars, savedDocs >>

\* ---- captureMockups ----------------------------------------------------
Fault == Event

\* the first config at or after k whose source node exists (the loop's
\* 'if (!element) continue'), NumMockups + 1 if there is none
FirstFrom(k) ==
    IF \E j \in k..NumMockups : exists[j]
    THEN CHOOSE j \in k..NumMockups : exists[j] /\ \A i \in k..(j - 1) : ~exists[i]
    ELSE NumMockups + 1

\* the class is never removed again
RestoreActiveForgotten(act, k, was) == act

\* if (!wasActive) element.classList.remove('active')
RestoreActive(act, k, was) == IF was THEN act ELSE [act EXCEPT ![k] = FALSE]

\* tempContainer.appendChild(clone) without 'tempContainer.innerHTML = ""'
StageWithoutClearing(children, j) == Append(children, j)

\* tempContainer.innerHTML = ''; ...; tempContainer.appendChild(clone)
StageClone(children, j) == << j >>

\* The for loop from config k to its next await (the settle timer of the next
\* config whose node exists) or, past the last config, to the return.  act: the
\* 'active' classes, out: the capture outcomes, dom: tempContainer and overlay in
\* the document, t: PdfTiming, as the caller left them.
LoopFrom(g, k, act, out, dom, t) ==
    LET j == FirstFrom(k)
    IN  /\ outcome' = [outcome EXCEPT ![g] =
                         [m \in Mockups |-> IF m >= k /\ m < j THEN "missing" ELSE out[m]]]
        /\ ck' = [ck EXCEPT ![g] = j]
        /\ IF j <= NumMockups
           THEN /\ wasActive' = [wasActive EXCEPT ![g] = act[j]]
                /\ active' = [act EXCEPT ![j] = TRUE]
                /\ staging' = [staging EXCEPT ![g] = StageClone(@, j)]
                /\ cpc' = [cpc EXCEPT ![g] = "timer"]
                /\ domIn' = dom
                /\ PdfTiming' = t
                /\ UNCHANGED consoleErr
           ELSE /\ active' = act
                /\ PdfTiming' = TimingEnd(t, "captureMockups_total")
                /\ domIn' = [dom EXCEPT ![g] = FALSE]
                /\ consoleErr' = origErr[g]
                /\ cpc' = [cpc EXCEPT ![g] = "done"]
                /\ UNCHANGED << wasActive, staging >>

\* The end of one iteration (after the try/catch) and the loop from the next.
EndIteration(g, out) ==
    LoopFrom(g, ck[g] + 1, RestoreActive(active, ck[g], wasActive[g]), out, domIn,
             recordMockup(PdfTiming, mockupConfigs[ck[g]].id))

\* a capture error that ends the loop (a try around the loop, not inside it)
AbortOnCaptureError(g, out) ==
    LoopFrom(g, NumMockups + 1, RestoreActive(active, ck[g], wasActive[g]), out, domIn,
             PdfTiming)

\* catch (e) { console.warn(...) }: the iteration ends like a successful one
OnCaptureError(g, out) == EndIteration(g, out)

\* what a step of captureMockups leaves alone
capFrame(g) ==
    /\ overlapped' = [overlapped EXCEPT ![g] = @ \/ gpc[g] \in {"early1", "early2"}]
    /\ UNCHANGED << storeVars, btnDisabled, nextGen, hpc, toast, logoAtStart,
                    profileChanged, domVars, genVars, singleVars, timingReports,
                    savedDocs >>

\* ---- embedFontsAsBase64 ------------------------------------------------
\* The font urls of one stylesheet: the request asks for the weights 400 and 700.
FontWeights == 2
FontFiles == 1..FontWeights

\* a failed stylesheet fetch that leaves embedFontsAsBase64 by a throw: the
\* capture run ends without a capture
FamilyFailureThrows(g, emb) ==
    /\ embeddedCss' = [embeddedCss EXCEPT ![g] = emb]
    /\ cFont' = [cFont EXCEPT ![g] = numFonts]
    /\ cFile' = [cFile EXCEPT ![g] = 0]
    /\ css' = [css EXCEPT ![g] = {}]
    /\ LoopFrom(g, NumMockups + 1, active, outcome[g], domIn, PdfTiming)

\* The family loop from the end of one family (embeddedCss is emb) to the next
\* stylesheet fetch or, after the last family, the return to captureMockups: the
\* overlay and tempContainer are appended and the capture loop starts.
NextFamily(g, emb) ==
    /\ embeddedCss' = [embeddedCss EXCEPT ![g] = emb]
    /\ cFile' = [cFile EXCEPT ![g] = 0]
    /\ css' = [css EXCEPT ![g] = {}]
    /\ IF cFont[g] < numFonts
       THEN /\ cFont' = [cFont EXCEPT ![g] = @ + 1]
            /\ UNCHANGED << cpc, ck, wasActive, staging, domIn, outcome, active, consoleErr,
                            PdfTiming >>
       ELSE /\ UNCHANGED cFont
            /\ LoopFrom(g, 1, active, outcome[g], [domIn EXCEPT ![g] = TRUE], PdfTiming)

\* catch (e) { console.warn('Could not load font:', family) } and
\* 'if (!response.ok) continue': the family is skipped
OnFamilyFailed(g, emb) == NextFamily(g, emb)

\* fetch(cssUrl) resolved ok and response.text() was read: the first font url
\* is fetched
fontStylesheetLoaded(g) ==
    /\ cpc[g] = "fonts"
    /\ cFile[g] = 0
    /\ cFile' = [cFile EXCEPT ![g] = 1]
    /\ UNCHANGED << cFont, css, embeddedCss, fontFailed >>
    /\ UNCHANGED << cpc, ck, wasActive, staging, domIn, outcome, active, consoleErr,
                    PdfTiming >>
    /\ UNCHANGED << captures, zeroDims, origErr, rasterInFlight, events >>
    /\ capFrame(g)

\* fetch(cssUrl) rejected, or its response is not ok
fontStylesheetFailed(g) ==
    /\ cpc[g] = "fonts"
    /\ cFile[g] = 0
    /\ Fault
    /\ fontFailed' = [fontFailed EXCEPT ![g] = @ \cup {<< cFont[g], 0 >>}]
    /\ OnFamilyFailed(g, embeddedCss[g])
    /\ UNCHANGED << captures, zeroDims, origErr, rasterInFlight >>
    /\ capFrame(g)

\* The font url loop from the end of one url (css is uris) to the next fetch
\* or, after the last url, 'embeddedCss += css' and the next family.
NextFontFile(g, uris) ==
    IF cFile[g] < FontWeights
    THEN /\ cFile' = [cFile EXCEPT ![g] = @ + 1]
         /\ css' = [css EXCEPT ![g] = uris]
         /\ UNCHANGED << cFont, embeddedCss >>
         /\ UNCHANGED << cpc, ck, wasActive, staging, domIn, outcome, active, consoleErr,
                         PdfTiming >>
    ELSE NextFamily(g, Append(embeddedCss[g], [family |-> cFont[g], dataUris |-> uris]))

\* catch (e) { /* Skip this font file */ }
OnFontFileFailed(g) == NextFontFile(g, css[g])

\* fetch(fontUrl) and arrayBuffer() resolved: css.replace(fontUrl, dataUri)
fontFileEmbedded(g) ==
    /\ cpc[g] = "fonts"
    /\ cFile[g] \in FontFiles
    /\ NextFontFile(g, css[g] \cup {cFile[g]})
    /\ UNCHANGED << fontFailed, captures, zeroDims, origErr, rasterInFlight, events >>
    /\ capFrame(g)

\* fetch(fontUrl) or arrayBuffer() rejected
fontFileFailed(g) ==
    /\ cpc[g] = "fonts"
    /\ cFile[g] \in FontFiles
    /\ Fault
    /\ fontFailed' = [fontFailed EXCEPT ![g] = @ \cup {<< cFont[g], cFile[g] >>}]
    /\ OnFontFileFailed(g)
    /\ UNCHANGED << captures, zeroDims, origErr, rasterInFlight >>
    /\ capFrame(g)

\* toJpeg called without await: the loop goes on to the decode of its result
captureSettledNoAwait(g) ==
    /\ cpc[g] = "timer"
    /\ rasterInFlight' = [rasterInFlight EXCEPT ![g] = @ \cup {ck[g]}]
    /\ cpc' = [cpc EXCEPT ![g] = "decode"]
    /\ UNCHANGED << ck, fontVars, wasActive, captures, zeroDims, staging, domIn, origErr,
                    outcome,
                    active, consoleErr, events, PdfTiming >>
    /\ capFrame(g)

\* the settle timer fired: htmlToImage.toJpeg(tempContainer, ...) is called and awaited
captureSettled(g) ==
    /\ cpc[g] = "timer"
    /\ rasterInFlight' = [rasterInFlight EXCEPT ![g] = @ \cup {ck[g]}]
    /\ cpc' = [cpc EXCEPT ![g] = "raster"]
    /\ UNCHANGED << ck, fontVars, wasActive, captures, zeroDims, staging, domIn, origErr,
                    outcome,
                    active, consoleErr, events, PdfTiming >>
    /\ capFrame(g)

\* toJpeg resolved: the image is handed to new Image() and its load is awaited
captureRastered(g) ==
    /\ cpc[g] = "raster"
    /\ rasterInFlight' = [rasterInFlight EXCEPT ![g] = @ \ {ck[g]}]
    /\ cpc' = [cpc EXCEPT ![g] = "decode"]
    /\ UNCHANGED << ck, fontVars, wasActive, captures, zeroDims, staging, domIn, origErr,
                    outcome,
                    active, consoleErr, events, PdfTiming >>
    /\ capFrame(g)

\* toJpeg rejected: catch, console.warn, restore, next iteration
captureRasterFailed(g) ==
    /\ cpc[g] = "raster"
    /\ Fault
    /\ rasterInFlight' = [rasterInFlight EXCEPT ![g] = @ \ {ck[g]}]
    /\ OnCaptureError(g, [outcome[g] EXCEPT ![ck[g]] = "rasterFail"])
    /\ UNCHANGED << fontVars, captures, zeroDims, origErr >>
    /\ capFrame(g)

\* captures.unshift instead of captures.push
CapturesUnshift(caps, k) == << k >> \o caps

\* captures.push({...config, imgData, width, height, format})
CapturesPush(caps, k) == Append(caps, k)

\* img.onload: the capture record is pushed with width: img.width and
\* height: img.height, then restore and the next iteration
captureDecoded(g) ==
    /\ cpc[g] = "decode"
    /\ captures' = [captures EXCEPT ![g] = CapturesPush(@, ck[g])]
    /\ EndIteration(g, [outcome[g] EXCEPT ![ck[g]] = "ok"])
    /\ UNCHANGED << fontVars, zeroDims, origErr, rasterInFlight, events >>
    /\ capFrame(g)

\* img.onload of an image whose width or height is 0: the same statements run
captureDecodedZero(g) ==
    /\ cpc[g] = "decode"
    /\ Fault
    /\ captures' = [captures EXCEPT ![g] = CapturesPush(@, ck[g])]
    /\ zeroDims' = [zeroDims EXCEPT ![g] = @ \cup {ck[g]}]
    /\ EndIteration(g, [outcome[g] EXCEPT ![ck[g]] = "ok"])
    /\ UNCHANGED << fontVars, origErr, rasterInFlight >>
    /\ capFrame(g)

\* the promise of the decode without 'img.onerror = reject': it never settles
DecodeErrorIgnored(g, out) ==
    /\ cpc' = [cpc EXCEPT ![g] = "hung"]
    /\ outcome' = [outcome EXCEPT ![g] = out]
    /\ UNCHANGED << ck, wasActive, staging, domIn, active, consoleErr, PdfTiming >>

\* img.onerror = reject: the await throws into the catch of the iteration
OnDecodeError(g, out) == OnCaptureError(g, out)

\* img.onerror: catch, console.warn, restore, next iteration
captureDecodeFailed(g) ==
    /\ cpc[g] = "decode"
    /\ Fault
    /\ OnDecodeError(g, [outcome[g] EXCEPT ![ck[g]] = "decodeFail"])
    /\ UNCHANGED << fontVars, captures, zeroDims, origErr, rasterInFlight >>
    /\ capFrame(g)

\* ---- generatePdf -------------------------------------------------------
genFrameBase == << storeVars, btnDisabled, nextGen, hpc, toast, logoAtStart,
                   profileChanged, overlapped, domVars, singleVars >>
genFrame == << genFrameBase, timingReports, savedDocs >>
capIdle == << ck, wasActive, captures, zeroDims, staging, domIn, rasterInFlight, outcome, active >>

\* captureMockups(brandbook) up to its first await: suppressCorsErrors() and the
\* first fetch of embedFontsAsBase64; the timing calls are with the caller's
captureMockups(g) ==
    /\ origErr' = [origErr EXCEPT ![g] = consoleErr]
    /\ consoleErr' = Append(consoleErr, g)
    /\ cFont' = [cFont EXCEPT ![g] = 1]
    /\ cFile' = [cFile EXCEPT ![g] = 0]
    /\ css' = [css EXCEPT ![g] = {}]
    /\ embeddedCss' = [embeddedCss EXCEPT ![g] = << >>]
    /\ fontFailed' = [fontFailed EXCEPT ![g] = {}]
    /\ cpc' = [cpc EXCEPT ![g] = "fonts"]

\* From 'new jsPDF' to the await of addTitlePage: the captures are started, then
\* the title page is drawn; imageOk: pdf.addImage accepts the cached logo.
StartDocument(g, cached, imageOk) ==
    /\ cachedLogo' = [cachedLogo EXCEPT ![g] = cached]
    /\ captureMockups(g)
    /\ PdfTiming' = TimingStart(TimingStart(TimingEnd(PdfTiming, "preloadLogo"),
                                            "captureMockups_total"), "addTitlePage")
    /\ IF cached /\ ~imageOk
       THEN /\ gpc' = [gpc EXCEPT ![g] = "rejected"]
            /\ rejectCause' = [rejectCause EXCEPT ![g] = "addImage"]
            /\ pages' = [pages EXCEPT ![g] = << Page("title", "", "", "", {"gradient"}) >>]
       ELSE /\ gpc' = [gpc EXCEPT ![g] = "early1"]
            /\ pages' = [pages EXCEPT ![g] = << addTitlePage(cached) >>]
            /\ UNCHANGED rejectCause
    /\ UNCHANGED << saved, qrTemp, logoPageCalls, qrOutcome >>
    /\ UNCHANGED capIdle
    /\ UNCHANGED genFrame

\* preloadLogo() returned null (no logo url)
preloadLogoNull(g) ==
    /\ gpc[g] = "preloadNull"
    /\ StartDocument(g, FALSE, TRUE)
    /\ UNCHANGED events

\* preloadLogo(): img.onload resolved with the image data
preloadLogoLoaded(g) ==
    /\ gpc[g] = "preloadImg"
    /\ StartDocument(g, TRUE, TRUE)
    /\ UNCHANGED events

\* preloadLogo() resolved, but addCachedLogoToPdf's pdf.addImage throws on the
\* title page: generatePdf rejects with its captureMockups call still running
titleImageRejected(g) ==
    /\ gpc[g] = "preloadImg"
    /\ Fault
    /\ StartDocument(g, TRUE, FALSE)

\* what generatePdf does when the promise of preloadLogo() rejects: the await is
\* outside any try, so generatePdf rejects
OnPreloadRejected(g) ==
    /\ gpc' = [gpc EXCEPT ![g] = "rejected"]
    /\ rejectCause' = [rejectCause EXCEPT ![g] = "preload"]
    /\ UNCHANGED << cachedLogo, pages, consoleErr, origErr, fontVars, cpc, PdfTiming >>

\* preloadLogo(): img.onerror, or the onload handler threw
preloadLogoFailed(g) ==
    /\ gpc[g] = "preloadImg"
    /\ Fault
    /\ OnPreloadRejected(g)
    /\ UNCHANGED << saved, qrTemp, logoPageCalls, qrOutcome >>
    /\ UNCHANGED capIdle
    /\ UNCHANGED genFrame

genIdle == << events, active, consoleErr, capVars, cachedLogo, saved, rejectCause >>
qrIdle == << active, consoleErr, capVars, cachedLogo, saved, rejectCause, logoPageCalls >>

\* the test of the earlier generatePdf: if (BrandbookModule.getLogoUrl())
LogoPageWantedLive(g) == getLogoUrl

\* if (cachedLogo) { pdf.addPage(); await addLogoPage(...) }
LogoPageWanted(g) == cachedLogo[g]

\* the timing calls from the end of the title page to the typography page
EarlyTiming(t) ==
    TimingSpan(TimingSpan(TimingEnd(t, "addTitlePage"), "addColorPalettePage"),
               "addTypographyPage")

\* after 'await addTitlePage': palette and typography pages, and with a cached
\* logo the logo page up to 'await addLogoPage'
earlyPages(g) ==
    /\ gpc[g] = "early1"
    /\ IF LogoPageWanted(g)
       THEN /\ pages' = [pages EXCEPT ![g] =
                           @ \o << addColorPalettePage, addTypographyPage,
                                   addLogoPage(cachedLogo[g]) >>]
            /\ logoPageCalls' = [logoPageCalls EXCEPT ![g] = @ + 1]
            /\ PdfTiming' = TimingStart(EarlyTiming(PdfTiming), "addLogoPage")
            /\ gpc' = [gpc EXCEPT ![g] = "early2"]
       ELSE /\ pages' = [pages EXCEPT ![g] =
                           @ \o << addColorPalettePage, addTypographyPage >>]
            /\ PdfTiming' = EarlyTiming(PdfTiming)
            /\ gpc' = [gpc EXCEPT ![g] = "awaitCaps"]
            /\ UNCHANGED logoPageCalls
    /\ UNCHANGED << qrTemp, qrOutcome >>
    /\ UNCHANGED genIdle
    /\ UNCHANGED genFrame

\* after 'await addLogoPage': await mockupCapturesPromise
afterLogoPage(g) ==
    /\ gpc[g] = "early2"
    /\ gpc' = [gpc EXCEPT ![g] = "awaitCaps"]
    /\ PdfTiming' = TimingEnd(PdfTiming, "addLogoPage")
    /\ UNCHANGED << pages, qrTemp, logoPageCalls, qrOutcome >>
    /\ UNCHANGED genIdle
    /\ UNCHANGED genFrame

\* the promise used without await
CapturesNotAwaited(g) == TRUE

\* const captures = await mockupCapturesPromise: resumes when captureMockups returned
CapturesAwaited(g) == cpc[g] = "done"

\* after the captures: addMockupPagesFromCaptures(pdf, captures, brandbook)
mockupPages(g) ==
    /\ gpc[g] = "awaitCaps"
    /\ CapturesAwaited(g)
    /\ pages' = [pages EXCEPT ![g] = @ \o addMockupPagesFromCaptures(captures[g], getLogoUrl)]
    /\ gpc' = [gpc EXCEPT ![g] = "afterMockups"]
    /\ PdfTiming' = TimingSpan(PdfTiming, "addMockupPagesFromCaptures")
    /\ UNCHANGED << qrTemp, logoPageCalls, qrOutcome >>
    /\ UNCHANGED genIdle
    /\ UNCHANGED genFrame

\* removeChild at the end of the try block instead of in finally
OnQrThrownNoFinally(g) ==
    /\ pages' = [pages EXCEPT ![g] =
                    Append(@, QrPageFinish(QrPageHeader(getLogoUrl), FALSE, getLogoUrl))]
    /\ qrTemp' = [qrTemp EXCEPT ![g] = TRUE]
    /\ gpc' = [gpc EXCEPT ![g] = "afterQr"]

\* what addQrCodePage does when 'new QRCode' throws: catch, finally removes the
\* container, then the rest of the page
OnQrThrown(g) ==
    /\ pages' = [pages EXCEPT ![g] =
                    Append(@, QrPageFinish(QrPageHeader(getLogoUrl), FALSE, getLogoUrl))]
    /\ qrTemp' = [qrTemp EXCEPT ![g] = FALSE]
    /\ gpc' = [gpc EXCEPT ![g] = "afterQr"]

\* pdf.addPage(); addQrCodePage: header, container appended, new QRCode, await timer
qrCodePageStart(g) ==
    /\ gpc[g] = "afterMockups"
    /\ pages' = [pages EXCEPT ![g] = Append(@, QrPageHeader(getLogoUrl))]
    /\ qrTemp' = [qrTemp EXCEPT ![g] = TRUE]
    /\ gpc' = [gpc EXCEPT ![g] = "qrTimer"]
    /\ PdfTiming' = TimingStart(PdfTiming, "addQrCodePage")
    /\ UNCHANGED << events, qrOutcome >>
    /\ UNCHANGED qrIdle
    /\ UNCHANGED genFrame

\* pdf.addPage(); addQrCodePage: 'new QRCode' throws
qrCodeThrows(g) ==
    /\ gpc[g] = "afterMockups"
    /\ Fault
    /\ OnQrThrown(g)
    /\ PdfTiming' = TimingStart(PdfTiming, "addQrCodePage")
    /\ qrOutcome' = [qrOutcome EXCEPT ![g] = "thrown"]
    /\ UNCHANGED qrIdle
    /\ UNCHANGED genFrame

\* addQrCodePage after its timer; hasCanvas: qrContainer.querySelector('canvas')
QrAfterTimer(g, hasCanvas) ==
    /\ pages' = [pages EXCEPT ![g] =
                    [@ EXCEPT ![Len(@)] = QrPageFinish(@, hasCanvas, getLogoUrl)]]
    /\ qrTemp' = [qrTemp EXCEPT ![g] = FALSE]
    /\ gpc' = [gpc EXCEPT ![g] = "afterQr"]

\* the timer fired and the QR code is on a canvas: panel and barcode are drawn
qrCodeDrawn(g) ==
    /\ gpc[g] = "qrTimer"
    /\ QrAfterTimer(g, TRUE)
    /\ qrOutcome' = [qrOutcome EXCEPT ![g] = "drawn"]
    /\ UNCHANGED << events, PdfTiming >>
    /\ UNCHANGED qrIdle
    /\ UNCHANGED genFrame

\* the timer fired and there is no canvas
qrCodeNoCanvas(g) ==
    /\ gpc[g] = "qrTimer"
    /\ Fault
    /\ QrAfterTimer(g, FALSE)
    /\ qrOutcome' = [qrOutcome EXCEPT ![g] = "noCanvas"]
    /\ UNCHANGED PdfTiming
    /\ UNCHANGED qrIdle
    /\ UNCHANGED genFrame

\* String.prototype.toLowerCase on the letters that Names uses
UpperCase == << "A", "B", "M" >>
LowerCase == << "a", "b", "m" >>
toLowerCase(c) ==
    IF \E i \in 1..Len(UpperCase) : c = UpperCase[i]
    THEN LowerCase[CHOOSE i \in 1..Len(UpperCase) : c = UpperCase[i]]
    ELSE c

\* text.replace(/\s+/g, '-'): every run of blanks becomes one '-'
RECURSIVE DashBlanks(_)
DashBlanks(text) ==
    IF text = << >> THEN << >>
    ELSE IF Head(text) # " " THEN << Head(text) >> \o DashBlanks(Tail(text))
    ELSE IF Len(text) > 1 /\ text[2] = " " THEN DashBlanks(Tail(text))
    ELSE << "-" >> \o DashBlanks(Tail(text))

\* `${brandbook.meta.name.toLowerCase().replace(/\s+/g, '-')}-brandbook.pdf`
FileName(n) ==
    DashBlanks([i \in 1..Len(n) |-> toLowerCase(n[i])]) \o << "-brandbook.pdf" >>

\* what generation g was given and what it hands to pdf.save
DocRecord(g) ==
    [logo |-> logo, name |-> name, changed |-> profileChanged[g],
     outcome |-> outcome[g], qr |-> qrOutcome[g],
     pages |-> pages[g], fileName |-> FileName(name)]

LastTwo(docs) == IF Len(docs) > 2 THEN Tail(docs) ELSE docs

\* pdf.save(fileName) returns
pdfSave(g) ==
    /\ gpc[g] = "afterQr"
    /\ saved' = [saved EXCEPT ![g] = TRUE]
    /\ savedDocs' = LastTwo(Append(savedDocs, DocRecord(g)))
    /\ PdfTiming' = TimingEnd(TimingSpan(TimingEnd(PdfTiming, "addQrCodePage"), "pdfSave"),
                              "generatePdf_total")
    /\ timingReports' = printReport(PdfTiming, timingReports)
    /\ gpc' = [gpc EXCEPT ![g] = "resolved"]
    /\ UNCHANGED << pages, qrTemp, logoPageCalls, qrOutcome, rejectCause, cachedLogo >>
    /\ UNCHANGED << events, active, consoleErr, capVars >>
    /\ UNCHANGED genFrameBase

\* pdf.save(fileName) throws
pdfSaveThrows(g) ==
    /\ gpc[g] = "afterQr"
    /\ Fault
    /\ gpc' = [gpc EXCEPT ![g] = "rejected"]
    /\ rejectCause' = [rejectCause EXCEPT ![g] = "save"]
    /\ PdfTiming' = TimingStart(TimingEnd(PdfTiming, "addQrCodePage"), "pdfSave")
    /\ UNCHANGED << pages, qrTemp, logoPageCalls, qrOutcome, saved, cachedLogo >>
    /\ UNCHANGED << active, consoleErr, capVars >>
    /\ UNCHANGED genFrame

\* ---- generateSingleMockupPdf -------------------------------------------
\* the configs that SINGLE_MOCKUP_CONFIGS has an entry for
SingleMockups == {m \in Mockups : mockupConfigs[m].id # "mockup-presentation"}

singleFrame == << storeVars, consoleErr, timingVars, savedDocs, logoAtStart, profileChanged, overlapped,
                  domVars, genVars, capVars, uiVars >>

\* PdfModule.generateSingleMockupPdf(mockupId) up to the first await of
\* captureSingleMockup: 'return null' without the node, else the font embedding
generateSingleMockupPdf(m) ==
    /\ UserTurn
    /\ spc = "idle"
    /\ smock' = m
    /\ spc' = IF exists[m] THEN "fonts" ELSE "null"
    /\ UNCHANGED << active, sWasActive, sDomIn, sZero >>
    /\ UNCHANGED singleFrame

\* captureSingleMockup after 'await embedFontsAsBase64': the container is
\* appended, wasActive is read, the node is shown and its clone is staged
singleStaged ==
    /\ spc = "fonts"
    /\ sDomIn' = TRUE
    /\ sWasActive' = active[smock]
    /\ active' = [active EXCEPT ![smock] = TRUE]
    /\ spc' = "capture"
    /\ UNCHANGED << smock, events, sZero >>
    /\ UNCHANGED singleFrame

\* return or catch, then finally { if (!wasActive) remove('active'); removeChild }
SingleFinally ==
    /\ active' = RestoreActive(active, smock, sWasActive)
    /\ sDomIn' = FALSE
    /\ spc' = "save"
    /\ UNCHANGED << smock, sWasActive >>

\* settle timer, htmlToImage.toPng and img.onload are through: the capture
\* record is returned
singleCaptured ==
    /\ spc = "capture"
    /\ SingleFinally
    /\ UNCHANGED << events, sZero >>
    /\ UNCHANGED singleFrame

\* the same with an image whose width or height is 0: the record is returned
singleCapturedZero ==
    /\ spc = "capture"
    /\ Fault
    /\ SingleFinally
    /\ sZero' = TRUE
    /\ UNCHANGED singleFrame

\* toPng rejected or img.onerror: catch, return null
singleFailed ==
    /\ spc = "capture"
    /\ Fault
    /\ SingleFinally
    /\ UNCHANGED sZero
    /\ UNCHANGED singleFrame

\* after 'await captureSingleMockup': image, page number, pdf.save; the call
\* returns and its locals are gone
singleSave ==
    /\ spc \in {"null", "save"}
    /\ spc' = "idle"
    /\ smock' = 0 /\ sWasActive' = FALSE /\ sZero' = FALSE
    /\ UNCHANGED << sDomIn, active, events >>
    /\ UNCHANGED singleFrame

\* ---- the brand data store ----------------------------------------------
Names == { DefaultName, << "A", "c", "m", "e" >> }

\* .brandbook files that pass the validation of importFromFile: meta.name and
\* the svg and png members of logo, each null or a data URL
ImportFiles == { [name |-> n, logo |-> l] :
                 n \in Names, l \in [svg : BOOLEAN, png : BOOLEAN] }

\* What is handed to an import: the text parses (base64 and JSON) or not, and
\* the parsed object has a truthy version, meta, colors, typography or not;
\* content: what the merge with the defaults makes of it.
ImportInputs ==
    [content : ImportFiles, parses : BOOLEAN, version : BOOLEAN, meta : BOOLEAN,
     colors : BOOLEAN, typography : BOOLEAN]

\* JSON.parse returned and
\* !(!data.version || !data.meta || !data.colors || !data.typography)
Validates(input) ==
    input.parses /\ input.version /\ input.meta /\ input.colors /\ input.typography

\* currentBrandbook assigned before the validation
KeepsPartialImport(current, imported) == imported

\* the throw comes before 'currentBrandbook = ...': the catch leaves it alone
OnInvalidImport(current, imported) == current

storeFrameBase == << calcVars, pageFonts, numFonts, exists, active, lastSelected, consoleErr, genVars, capVars,
                 uiVars, singleVars, timingVars, savedDocs, logoAtStart, overlapped >>
storeFrame == << storeFrameBase, importLog >>

\* BrandbookModule.setBrandName
setBrandName(n) ==
    /\ UserTurn
    /\ name' = n
    /\ stored' = saveToLocalStorage(n, logo)
    /\ profileChanged' = NoteEdit
    /\ UNCHANGED << logo, samplePc >>
    /\ UNCHANGED storeFrame

\* BrandbookModule.importFromFile, at reader.onload:
\* logo: { ...createEmptyBrandbook().logo, ...data.logo }, nothing is saved;
\* catch: reject(new Error('Failed to parse brandbook file: ...'))
importFromFile(file) ==
    LET data == file.content
    IN  /\ UserTurn
        /\ IF Validates(file)
           THEN /\ name' = data.name
                /\ logo' = [svg |-> data.logo.svg, png |-> data.logo.png]
                /\ profileChanged' = NoteEdit
                /\ importLog' = Append(importLog, "resolved")
           ELSE /\ name' = OnInvalidImport(name, data.name)
                /\ logo' = OnInvalidImport(logo, data.logo)
                /\ importLog' = Append(importLog, "rejected")
                /\ UNCHANGED profileChanged
        /\ UNCHANGED << stored, samplePc >>
        /\ UNCHANGED storeFrameBase

\* BrandbookModule.importFromUrlData: logo: createEmptyBrandbook().logo;
\* catch: console.error, return null
importFromUrlData(encodedData) ==
    LET n == encodedData.content.name
    IN  /\ UserTurn
        /\ IF Validates(encodedData)
           THEN /\ name' = n
                /\ logo' = EmptyLogo
                /\ stored' = saveToLocalStorage(n, EmptyLogo)
                /\ profileChanged' = NoteEdit
                /\ importLog' = Append(importLog, "returned")
           ELSE /\ name' = OnInvalidImport(name, n)
                /\ logo' = OnInvalidImport(logo, EmptyLogo)
                /\ stored' = OnInvalidImport(stored, saveToLocalStorage(n, EmptyLogo))
                /\ importLog' = Append(importLog, "null")
                /\ UNCHANGED profileChanged
        /\ UNCHANGED samplePc
        /\ UNCHANGED storeFrameBase

\* The page is loaded again: currentBrandbook = createEmptyBrandbook(), then
\* init() calls loadFromLocalStorage() and, when nothing was saved,
\* loadSampleLogo(), which awaits its fetch.
loadFromLocalStorage ==
    /\ UserTurn
    /\ IF stored # << >>
       THEN /\ name' = stored[1].name
            /\ logo' = stored[1].logo
            /\ samplePc' = "idle"
       ELSE /\ name' = DefaultName
            /\ logo' = EmptyLogo
            /\ samplePc' = "fetching"
    /\ UNCHANGED << stored, profileChanged >>
    /\ UNCHANGED storeFrame

\* loadSampleLogo after its fetch: brandbook.logo.svg = dataUrl
loadSampleLogo ==
    /\ samplePc = "fetching"
    /\ logo' = [logo EXCEPT !.svg = TRUE]
    /\ samplePc' = "idle"
    /\ UNCHANGED << name, stored, profileChanged, events >>
    /\ UNCHANGED storeFrame

\* loadSampleLogo: the fetch rejected, catch
loadSampleLogoFailed ==
    /\ samplePc = "fetching"
    /\ Fault
    /\ samplePc' = "idle"
    /\ UNCHANGED << logo, name, stored, profileChanged >>
    /\ UNCHANGED storeFrame

\* ---- FontsModule -------------------------------------------------------
\* the families the page asks for: the defaults of the two font pickers
FontFamilies == {"Montserrat", "Open Sans"}

fontsFrame == << storeVars, importLog, calcVars, numFonts, exists, active, lastSelected, consoleErr, genVars,
                 capVars, uiVars, singleVars, timingVars, savedDocs, logoAtStart,
                 profileChanged, overlapped >>

\* loadFont(fontFamily): resolved at once for a family in loadedFonts, else a
\* link is created and appended to document.head
loadFont(fontFamily) ==
    /\ Event
    /\ IF fontFamily \in loadedFonts
       THEN UNCHANGED fontLinks
       ELSE fontLinks' = Append(fontLinks, [family |-> fontFamily, state |-> "loading"])
    /\ UNCHANGED loadedFonts
    /\ UNCHANGED fontsFrame

\* link.onload: loadedFonts.add(fontFamily); resolve()
linkOnload(i) ==
    /\ fontLinks[i].state = "loading"
    /\ loadedFonts' = loadedFonts \cup {fontLinks[i].family}
    /\ fontLinks' = [fontLinks EXCEPT ![i].state = "loaded"]
    /\ UNCHANGED events
    /\ UNCHANGED fontsFrame

\* link.onerror: reject(new Error(...))
linkOnerror(i) ==
    /\ fontLinks[i].state = "loading"
    /\ Fault
    /\ fontLinks' = [fontLinks EXCEPT ![i].state = "failed"]
    /\ UNCHANGED loadedFonts
    /\ UNCHANGED fontsFrame

\* ---- pure helpers ------------------------------------------------------
\* Numbers that need not be whole are fractions [n, d] with d > 0.
Frac(n, d) == [n |-> n, d |-> d]
FracEq(a, b) == a.n * b.d = b.n * a.d
FracLeq(a, b) == a.n * b.d <= b.n * a.d
FracGt(a, b) == a.n * b.d > b.n * a.d

\* the test left out: the image is never scaled down to the height
HeightNeverExceeds(height, maxHeight) == FALSE

\* if (height > maxHeight)
HeightExceeds(height, maxHeight) == FracGt(height, Frac(maxHeight, 1))

calculateFitDimensions(sourceWidth, sourceHeight, maxWidth, maxHeight) ==
    LET width == Frac(maxWidth, 1)
        height == Frac(sourceHeight * maxWidth, sourceWidth)
    IN  IF HeightExceeds(height, maxHeight)
        THEN [width |-> Frac(sourceWidth * maxHeight, sourceHeight),
              height |-> Frac(maxHeight, 1)]
        ELSE [width |-> width, height |-> height]

\* [a-f\d], case-insensitive, and parseInt(x, 16) of one digit
HexDigits == << "0", "1", "2", "3", "4", "5", "6", "7", "8", "9",
                "a", "b", "c", "d", "e", "f" >>
UpperHexDigits == << "0", "1", "2", "3", "4", "5", "6", "7", "8", "9",
                     "A", "B", "C", "D", "E", "F" >>
IsHexDigit(c) == \E i \in 1..16 : c = HexDigits[i] \/ c = UpperHexDigits[i]
HexValue(c) == (CHOOSE i \in 1..16 : c = HexDigits[i] \/ c = UpperHexDigits[i]) - 1

\* hexToRgb: /^#?([a-f\d]{2})([a-f\d]{2})([a-f\d]{2})$/i, else black
hexToRgb(hex) ==
    LET digits == IF hex # << >> /\ Head(hex) = "#" THEN Tail(hex) ELSE hex
    IN  IF Len(digits) = 6 /\ \A i \in 1..6 : IsHexDigit(digits[i])
        THEN [r |-> 16 * HexValue(digits[1]) + HexValue(digits[2]),
              g |-> 16 * HexValue(digits[3]) + HexValue(digits[4]),
              b |-> 16 * HexValue(digits[5]) + HexValue(digits[6])]
        ELSE [r |-> 0, g |-> 0, b |-> 0]

\* Math.round of the fraction n / d, d > 0: halves go up
MathRound(n, d) == (2 * n + d) \div (2 * d)

gradientSteps == 50

\* ratio = i / (gradientSteps - 1): the last step is the secondary color
GradientRatioClosed == gradientSteps - 1

\* the denominator of 'const ratio = i / gradientSteps'
GradientRatioDen == gradientSteps

\* Math.round(primary + (secondary - primary) * ratio) for one channel at step i
GradientChannel(primary, secondary, i) ==
    MathRound(primary * GradientRatioDen + (secondary - primary) * i, GradientRatioDen)

\* the fill colors of the accent bar of addTitlePage, steps 0 .. gradientSteps - 1
titleGradient(primaryHex, secondaryHex) ==
    LET primaryColor == hexToRgb(primaryHex)
        secondaryColor == hexToRgb(secondaryHex)
    IN  [k \in 1..gradientSteps |->
           [r |-> GradientChannel(primaryColor.r, secondaryColor.r, k - 1),
            g |-> GradientChannel(primaryColor.g, secondaryColor.g, k - 1),
            b |-> GradientChannel(primaryColor.b, secondaryColor.b, k - 1)]]

\* the share payload with the logo left in
getShareableDataWithLogo(bb) ==
    [version |-> bb.version,
     meta |-> [name |-> bb.meta.name, generator |-> bb.meta.generator],
     colors |-> bb.colors,
     typography |-> bb.typography,
     logo |-> bb.logo]

\* BrandbookModule.getShareableData of the brandbook bb
getShareableData(bb) ==
    [version |-> bb.version,
     meta |-> [name |-> bb.meta.name, generator |-> bb.meta.generator],
     colors |-> bb.colors,
     typography |-> bb.typography]

\* JSON.stringify of a record: its members as key / value pairs, members that
\* are records likewise
JsonOrder == << "version", "meta", "name", "generator", "colors", "primary",
                "secondary", "typography", "logo", "svg", "png" >>

RECURSIVE JsonStringify(_)
JsonStringify(v) ==
    LET keys == SelectSeq(JsonOrder, LAMBDA k : k \in DOMAIN v)
    IN  [i \in 1..Len(keys) |->
           << keys[i],
              IF keys[i] \in {"meta", "colors", "typography", "logo"}
              THEN JsonStringify(v[keys[i]]) ELSE v[keys[i]] >>]

\* btoa(...): the text in groups of three with '=' padding, and
\* encoded.replace(/=+$/, '')
Btoa(text) == [text |-> text, padding |-> (3 - (Len(text) % 3)) % 3]
StripPadding(encoded) == [encoded EXCEPT !.padding = 0]

\* BrandbookModule.generateShareUrl(baseUrl) of the brandbook bb:
\* `${baseUrl}?data=${compactEncoded}`
generateShareUrl(bb, baseUrl) ==
    [base |-> baseUrl,
     data |-> StripPadding(Btoa(JsonStringify(getShareableData(bb))))]

\* ---- calls of the pure helpers -----------------------------------------
Dims == 1..MaxDim

\* hex colors with the channel values they denote
SampleColors ==
    { [hex |-> << "#", "F", "F", "5", "7", "3", "3" >>, r |-> 255, g |-> 87, b |-> 51],
      [hex |-> << "#", "2", "C", "3", "E", "5", "0" >>, r |-> 44, g |-> 62, b |-> 80],
      [hex |-> << "#", "2", "7", "A", "E", "6", "0" >>, r |-> 39, g |-> 174, b |-> 96],
      [hex |-> << "#", "0", "0", "0", "0", "0", "0" >>, r |-> 0, g |-> 0, b |-> 0],
      [hex |-> << "#", "f", "f", "f", "f", "f", "f" >>, r |-> 255, g |-> 255, b |-> 255],
      [hex |-> << "0", "1", "0", "2", "0", "3" >>, r |-> 1, g |-> 2, b |-> 3],
      [hex |-> << "#", "F", "E", "0", "1", "8", "0" >>, r |-> 254, g |-> 1, b |-> 128],
      [hex |-> << "a", "B", "c", "D", "e", "F" >>, r |-> 171, g |-> 205, b |-> 239],
      [hex |-> << "#", "1", "0", "0", "0", "F", "F" >>, r |-> 16, g |-> 0, b |-> 255],
      [hex |-> << "#", "8", "0", "7", "F", "0", "1" >>, r |-> 128, g |-> 127, b |-> 1] }

ShareLogos == { EmptyLogo, [svg |-> TRUE, png |-> FALSE], [svg |-> FALSE, png |-> TRUE] }

\* brandbooks as getBrandbook() returns them
SampleBrandbooks ==
    { [version |-> "1.0",
       meta |-> [name |-> n, created |-> "now", generator |-> "brandbook-visualizer"],
       colors |-> [primary |-> c.p, secondary |-> c.s],
       typography |-> [primary |-> "Montserrat", secondary |-> "Open Sans"],
       logo |-> l] :
      n \in {DefaultName, << "A", "c", "m", "e" >>},
      c \in { [p |-> x.hex, s |-> y.hex] : x \in SampleColors, y \in SampleColors },
      l \in ShareLogos }

CalcInputs ==
    { [fn |-> "fit", sourceWidth |-> sw, sourceHeight |-> sh, maxWidth |-> mw,
       maxHeight |-> mh] : sw \in Dims, sh \in Dims, mw \in Dims, mh \in Dims }
    \cup { [fn |-> "gradient", primary |-> p, secondary |-> q] :
           p \in SampleColors, q \in SampleColors }
    \cup { [fn |-> "share", brandbook |-> bb] : bb \in SampleBrandbooks }

BaseUrl == "https://example.org/brandbook-visualizer/"

calcFrame == << storeVars, importLog, calcArgs, pageFonts, numFonts, exists, lastSelected, active, consoleErr, events,
                genVars, capVars, uiVars, singleVars, timingVars, savedDocs, logoAtStart,
                profileChanged, overlapped >>

calculateFitDimensionsCall ==
    /\ calcResult = << >>
    /\ calcArgs.fn = "fit"
    /\ calcResult' = << calculateFitDimensions(calcArgs.sourceWidth, calcArgs.sourceHeight,
                                               calcArgs.maxWidth, calcArgs.maxHeight) >>
    /\ UNCHANGED calcFrame

titleGradientCall ==
    /\ calcResult = << >>
    /\ calcArgs.fn = "gradient"
    /\ calcResult' = << titleGradient(calcArgs.primary.hex, calcArgs.secondary.hex) >>
    /\ UNCHANGED calcFrame

generateShareUrlCall ==
    /\ calcResult = << >>
    /\ calcArgs.fn = "share"
    /\ calcResult' = << generateShareUrl(calcArgs.brandbook, BaseUrl) >>
    /\ UNCHANGED calcFrame

\* ---- specification -----------------------------------------------------
Next ==
    \/ \E g \in Gens : handleExportPdf(g)
    \/ \E g \in Gens : handleExportPdfSettle(g)
    \/ \E m \in Mockups : switchMockup(m)
    \/ \E isSvg \in BOOLEAN : setLogo(isSvg)
    \/ clearLogo
    \/ \E g \in Gens : preloadLogoNull(g)
    \/ \E g \in Gens : preloadLogoLoaded(g)
    \/ \E g \in Gens : titleImageRejected(g)
    \/ \E g \in Gens : preloadLogoFailed(g)
    \/ \E g \in Gens : earlyPages(g)
    \/ \E g \in Gens : afterLogoPage(g)
    \/ \E g \in Gens : mockupPages(g)
    \/ \E g \in Gens : qrCodePageStart(g)
    \/ \E g \in Gens : qrCodeThrows(g)
    \/ \E g \in Gens : qrCodeDrawn(g)
    \/ \E g \in Gens : qrCodeNoCanvas(g)
    \/ \E g \in Gens : pdfSave(g)
    \/ \E g \in Gens : pdfSaveThrows(g)
    \/ \E g \in Gens : fontStylesheetLoaded(g)
    \/ \E g \in Gens : fontStylesheetFailed(g)
    \/ \E g \in Gens : fontFileEmbedded(g)
    \/ \E g \in Gens : fontFileFailed(g)
    \/ \E g \in Gens : captureSettled(g)
    \/ \E g \in Gens : captureRastered(g)
    \/ \E g \in Gens : captureRasterFailed(g)
    \/ \E g \in Gens : captureDecoded(g)
    \/ \E g \in Gens : captureDecodedZero(g)
    \/ \E g \in Gens : captureDecodeFailed(g)
    \/ \E m \in SingleMockups : generateSingleMockupPdf(m)
    \/ singleStaged
    \/ singleCaptured
    \/ singleCapturedZero
    \/ singleFailed
    \/ singleSave

Spec == Init /\ [][Next]_vars

\* The continuations of generation g that the event loop runs once the awaited
\* operation has settled, either way: handleExportPdf and generatePdf ...
GenSteps(g) ==
    \/ handleExportPdfSettle(g)
    \/ preloadLogoNull(g)
    \/ preloadLogoLoaded(g)
    \/ titleImageRejected(g)
    \/ preloadLogoFailed(g)
    \/ earlyPages(g)
    \/ afterLogoPage(g)
    \/ mockupPages(g)
    \/ qrCodePageStart(g)
    \/ qrCodeThrows(g)
    \/ qrCodeDrawn(g)
    \/ qrCodeNoCanvas(g)
    \/ pdfSave(g)
    \/ pdfSaveThrows(g)

\* ... and captureMockups with embedFontsAsBase64
CapSteps(g) ==
    \/ fontStylesheetLoaded(g)
    \/ fontStylesheetFailed(g)
    \/ fontFileEmbedded(g)
    \/ fontFileFailed(g)
    \/ captureSettled(g)
    \/ captureRastered(g)
    \/ captureRasterFailed(g)
    \/ captureDecoded(g)
    \/ captureDecodedZero(g)
    \/ captureDecodeFailed(g)

\* Every awaited operation (image load, fetch, rasterization, timer) settles
\* in the end and the event loop then runs the continuation: a suspended call
\* is not suspended for ever.
Fairness == \A g \in Gens : WF_vars(GenSteps(g)) /\ WF_vars(CapSteps(g))

\* The export button, the logo edits and the generations they start, on a page
\* loaded without the debug parameter.
InitLive == Init /\ PdfTiming = NewPdfTiming(FALSE)

NextLive ==
    \/ \E g \in Gens : handleExportPdf(g)
    \/ \E isSvg \in BOOLEAN : setLogo(isSvg)
    \/ clearLogo
    \/ \E g \in Gens : GenSteps(g)
    \/ \E g \in Gens : CapSteps(g)

FairSpec == InitLive /\ [][NextLive]_vars /\ Fairness

\* The same with the tabs: the generations and the tab switches, without the
\* single-mockup export.
NextTabs ==
    \/ NextLive
    \/ \E m \in Mockups : switchMockup(m)

SpecTabs == InitLive /\ [][NextTabs]_vars

\* The pure helpers alone: one call, its arguments drawn from CalcInputs.
InitCalc ==
    /\ logo = EmptyLogo
    /\ name = DefaultName
    /\ stored = << >>
    /\ samplePc = "idle"
    /\ calcArgs \in CalcInputs
    /\ calcResult = << >>
    /\ numFonts = 2
    /\ exists = [m \in Mockups |-> TRUE]
    /\ active = [m \in Mockups |-> m = 1]
    /\ lastSelected = 1
    /\ events = 0
    /\ PdfTiming = NewPdfTiming(FALSE)
    /\ InitPipeline

NextCalc ==
    \/ calculateFitDimensionsCall
    \/ titleGradientCall
    \/ generateShareUrlCall

SpecCalc == InitCalc /\ [][NextCalc]_vars

\* The brand data store alone, from the first load of the page.
InitStore ==
    /\ logo = EmptyLogo
    /\ name = DefaultName
    /\ stored = << >>
    /\ samplePc = "fetching"
    /\ calcArgs = NoCall
    /\ calcResult = << >>
    /\ numFonts = 2
    /\ exists = [m \in Mockups |-> TRUE]
    /\ active = [m \in Mockups |-> m = 1]
    /\ lastSelected = 1
    /\ events = 0
    /\ PdfTiming = NewPdfTiming(FALSE)
    /\ InitPipeline

NextStore ==
    \/ \E isSvg \in BOOLEAN : setLogo(isSvg)
    \/ clearLogo
    \/ \E n \in Names : setBrandName(n)
    \/ \E file \in ImportInputs : importFromFile(file)
    \/ \E encodedData \in ImportInputs : importFromUrlData(encodedData)
    \/ loadFromLocalStorage
    \/ loadSampleLogo
    \/ loadSampleLogoFailed

SpecStore == InitStore /\ [][NextStore]_vars

\* The font loader alone: calls of loadFont by the pickers and by
\* loadDefaultFonts, and the load events of the links.
InitFonts == InitStore

NextFonts ==
    \/ \E fontFamily \in FontFamilies : loadFont(fontFamily)
    \/ \E i \in 1..Len(fontLinks) : linkOnload(i)
    \/ \E i \in 1..Len(fontLinks) : linkOnerror(i)

SpecFonts == InitFonts /\ [][NextFonts]_vars

TypeOK ==
    /\ nextGen \in 1..(MaxEvents + 1)
    /\ events \in 0..MaxEvents
    /\ \A g \in Gens : Len(pages[g]) <= 10

\* ---- properties --------------------------------------------------------
FailedOutcomes == {"rasterFail", "decodeFail"}

\* generatePdf reached pdf.save: the document is complete
ReachedSave(g) ==
    \/ gpc[g] \in {"afterQr", "resolved"}
    \/ gpc[g] = "rejected" /\ rejectCause[g] = "save"

\* the configs whose capture succeeded, in configuration order
CapturedInOrder(g) == SelectSeq([m \in Mockups |-> m], LAMBDA m : outcome[g][m] = "ok")

PageKey(p) == IF p.kind = "mockup" THEN p.id ELSE p.kind
PageKeys(g) == [i \in 1..Len(pages[g]) |-> PageKey(pages[g][i])]

FixedOrder(hasLogo, ok) ==
    << "title", "palette", "typography" >>
    \o (IF hasLogo THEN << "logo" >> ELSE << >>)
    \o [i \in 1..Len(ok) |-> mockupConfigs[ok[i]].id]
    \o << "qr" >>

\* C1: every generation that reaches the save step has its pages in the order
\* title, palette, typography, logo (iff a logo was present), one page per
\* successfully captured mockup in configuration order, QR page last.
C1_PageOrder ==
    \A g \in Gens :
        ReachedSave(g) => PageKeys(g) = FixedOrder(logoAtStart[g], CapturedInOrder(g))

\* a saved document with a logo page and with one mockup page skipped
C1_Witness ==
    \E g \in Gens :
        /\ gpc[g] = "resolved"
        /\ logoAtStart[g]
        /\ \E m \in Mockups : outcome[g][m] \in FailedOutcomes
        /\ Len(pages[g]) = 9

\* C2: with all five captures successful the document has 9 pages without a logo
\* and 10 with one; addLogoPage is called once with a logo and never without.
C2_PageCount ==
    \A g \in Gens :
        /\ ~logoAtStart[g] => logoPageCalls[g] = 0
        /\ (gpc[g] = "resolved" /\ \A m \in Mockups : outcome[g][m] = "ok") =>
              /\ Len(pages[g]) = (IF logoAtStart[g] THEN 10 ELSE 9)
              /\ logoPageCalls[g] = (IF logoAtStart[g] THEN 1 ELSE 0)

\* a saved ten-page document of a profile with a logo
C2_Witness ==
    \E g \in Gens :
        /\ gpc[g] = "resolved"
        /\ logoAtStart[g]
        /\ \A m \in Mockups : outcome[g][m] = "ok"
        /\ Len(pages[g]) = 10
        /\ logoPageCalls[g] = 1

HasMockupPage(g, m) ==
    \E i \in 1..Len(pages[g]) :
        pages[g][i].kind = "mockup" /\ pages[g][i].id = mockupConfigs[m].id

\* C3: a failed capture (node missing, rasterizer throws, decode fails) only
\* skips that mockup's page: every mockup whose node exists and whose capture
\* did not fail has its page, the QR page is emitted, and generatePdf rejects
\* only for a failed preload, title image or save.
C3_CaptureIsolation ==
    \A g \in Gens :
        /\ ReachedSave(g) =>
              /\ \A m \in Mockups :
                    HasMockupPage(g, m) <=>
                        (exists[m] /\ outcome[g][m] \notin FailedOutcomes)
              /\ pages[g][Len(pages[g])].kind = "qr"
        /\ gpc[g] = "resolved" => saved[g]
        /\ gpc[g] = "rejected" => rejectCause[g] \in {"preload", "addImage", "save"}

\* a saved document of a generation in which the capture of one existing
\* mockup node failed and the later mockups were still captured
C3_Witness ==
    \E g \in Gens :
        /\ gpc[g] = "resolved" /\ saved[g]
        /\ \E m \in 1..(NumMockups - 1) :
              /\ outcome[g][m] \in FailedOutcomes
              /\ ~HasMockupPage(g, m)
              /\ \A n \in (m + 1)..NumMockups : HasMockupPage(g, n)

\* a saved document of a generation in which one mockup node was missing
C3_WitnessMissing ==
    \E g \in Gens :
        /\ gpc[g] = "resolved"
        /\ \E m \in Mockups : ~exists[m] /\ outcome[g][m] = "missing"
        /\ Len(pages[g]) = 8

\* C4: the captures of one captureMockups run are strictly sequential in
\* configuration order: while config k is being captured every earlier config
\* has finished and no later one has started, the staging container holds the
\* clone of k only, and at most one toJpeg call of the run is in flight.
C4_SequentialCaptures ==
    \A g \in Gens :
        /\ Cardinality(rasterInFlight[g]) <= 1
        /\ \A m \in rasterInFlight[g] : m = ck[g] /\ cpc[g] = "raster"
        /\ cpc[g] \in {"timer", "raster", "decode"} =>
              /\ staging[g] = << ck[g] >>
              /\ \A m \in Mockups : (m < ck[g]) <=> (outcome[g][m] # "pending")

\* the third config is being rasterized after the capture of the second failed
C4_Witness ==
    \E g \in Gens :
        /\ cpc[g] = "raster" /\ ck[g] = 3 /\ rasterInFlight[g] = {3}
        /\ outcome[g][2] \in FailedOutcomes

\* the document built with the captures run first and the pages built afterwards
SequentialDoc(hasLogo, ok, hasCanvas) ==
    << addTitlePage(hasLogo), addColorPalettePage, addTypographyPage >>
    \o (IF hasLogo THEN << addLogoPage(hasLogo) >> ELSE << >>)
    \o addMockupPagesFromCaptures(ok, hasLogo)
    \o << QrPageFinish(QrPageHeader(hasLogo), hasCanvas, hasLogo) >>

\* C5: whatever the interleaving of capture steps with the early pages, the
\* saved document of an unchanged profile is the one that running the captures
\* first and building all pages afterwards gives for the same outcomes.
C5_OverlapInvisible ==
    \A g \in Gens :
        (gpc[g] = "resolved" /\ ~profileChanged[g]) =>
            pages[g] = SequentialDoc(logoAtStart[g], CapturedInOrder(g),
                                     qrOutcome[g] = "drawn")

\* a saved document of a generation whose captures ran while the early pages
\* were still being built
C5_Witness ==
    \E g \in Gens :
        /\ gpc[g] = "resolved" /\ ~profileChanged[g]
        /\ overlapped[g]
        /\ logoAtStart[g]
        /\ Len(pages[g]) = 10

\* C6: a failed logo preload never makes generatePdf reject.
C6_PreloadRecovered ==
    \A g \in Gens : ~(gpc[g] = "rejected" /\ rejectCause[g] = "preload")

\* C7: when handleExportPdf is through, the notification is the error toast if
\* generatePdf rejected and the success toast if it resolved, none is shown
\* before, and the button is enabled whenever no handler is waiting.
C7_ExportOutcome ==
    /\ \A g \in Gens :
          /\ (hpc[g] = "done" /\ gpc[g] = "rejected") => toast[g] = "error"
          /\ (hpc[g] = "done" /\ gpc[g] = "resolved") => toast[g] = "success"
          /\ hpc[g] = "awaiting" => toast[g] = "none"
    /\ (\A g \in Gens : hpc[g] # "awaiting") => ~btnDisabled

\* pdf.save threw: error toast, button enabled again
C7_Witness ==
    \E g \in Gens :
        /\ hpc[g] = "done" /\ gpc[g] = "rejected" /\ rejectCause[g] = "save"
        /\ toast[g] = "error"
        /\ ~btnDisabled

\* C8: while a generatePdf call started by handleExportPdf is unsettled the
\* export button is disabled, and at most one such call is unsettled.
C8_NoOverlap ==
    /\ \A g \in Gens : InFlight(g) => btnDisabled /\ hpc[g] = "awaiting"
    /\ Cardinality({g \in Gens : InFlight(g)}) <= 1

\* a second generation in flight, after the first one settled
C8_Witness ==
    /\ InFlight(2) /\ btnDisabled
    /\ hpc[1] = "done"

\* an iteration of the capture loop of run g ends in this step
IterationEnds(g) == cpc[g] \in {"raster", "decode"} /\ ck'[g] # ck[g]

\* captureSingleMockup returns in this step
SingleEnds == spc = "capture" /\ spc' = "save"

\* C9 as stated: when the capture of a mockup ends, its node's 'active' class
\* has the value it had when that capture began.
C9_RestoredToInitial ==
    [][ /\ \A g \in Gens : IterationEnds(g) => active'[ck[g]] = wasActive[g]
        /\ SingleEnds => active'[smock] = sWasActive ]_vars

\* C9, amended: when the capture of a mockup ends, a node that was inactive when
\* the capture began is inactive, and a node that was active is left as it is:
\* it is active unless the class was removed meanwhile.
C9_RestoreActive ==
    [][ /\ \A g \in Gens :
              IterationEnds(g) => active'[ck[g]] = (wasActive[g] /\ active[ck[g]])
        /\ SingleEnds => active'[smock] = (sWasActive /\ active[smock]) ]_vars

\* the first config was active, was captured and is active; the capture of the
\* second, inactive one failed and it is inactive again
C9_Witness ==
    \E g \in Gens :
        /\ outcome[g][1] = "ok" /\ active[1]
        /\ outcome[g][2] \in FailedOutcomes /\ ~active[2]
        /\ ck[g] = 3

\* captureSingleMockup returned for an inactive node, which is inactive again
C9_WitnessSingle ==
    /\ spc = "save" /\ ~sWasActive /\ ~active[smock]

QrPageOf(g) == pages[g][Len(pages[g])]

\* C10: when the QR code generation throws or yields no canvas the QR page is
\* still emitted with header, title, link, instructions, recap and footer and
\* without panel and barcode; the offscreen container is removed in the failure
\* and in the success case; generatePdf does not reject because of it.
C10_QrFailure ==
    \A g \in Gens :
        /\ qrOutcome[g] \in {"thrown", "noCanvas"} =>
              /\ ReachedSave(g)
              /\ QrPageOf(g).kind = "qr"
              /\ QrPageOf(g).parts = {"header"} \cup QrRest
              /\ QrPageOf(g).footer # ""
              /\ ~qrTemp[g]
        /\ qrOutcome[g] = "drawn" =>
              /\ ReachedSave(g)
              /\ QrPageOf(g).parts = {"header", "panel", "barcode"} \cup QrRest
              /\ ~qrTemp[g]

\* a saved document whose QR page lacks the barcode because 'new QRCode' threw
C10_Witness ==
    \E g \in Gens :
        /\ gpc[g] = "resolved" /\ saved[g]
        /\ qrOutcome[g] = "thrown"
        /\ "barcode" \notin QrPageOf(g).parts

\* the same with no canvas in the QR container
C10_WitnessNoCanvas ==
    \E g \in Gens :
        /\ gpc[g] = "resolved" /\ qrOutcome[g] = "noCanvas"
        /\ "barcode" \notin QrPageOf(g).parts

\* what embedFontsAsBase64 returns when exactly the fetches in failed went wrong:
\* the stylesheet of every family whose stylesheet fetch worked, in the order
\* of fontsToLoad, with every font file embedded whose own fetch worked
EmbeddedExcept(failed) ==
    LET kept == SelectSeq([f \in 1..numFonts |-> f], LAMBDA f : << f, 0 >> \notin failed)
    IN  [i \in 1..Len(kept) |->
           [family |-> kept[i],
            dataUris |-> {u \in FontFiles : << kept[i], u >> \notin failed}]]

\* C11: embedFontsAsBase64 always returns; a failed stylesheet fetch drops only
\* that family and a failed font file fetch only that file, and the capture
\* run goes on to attempt every mockup whose node exists.
C11_FontFailuresLocal ==
    \A g \in Gens :
        /\ cpc[g] \in {"timer", "raster", "decode", "done"} =>
               embeddedCss[g] = EmbeddedExcept(fontFailed[g])
        /\ cpc[g] = "done" =>
               \A m \in Mockups :
                   exists[m] => outcome[g][m] \in {"ok"} \cup FailedOutcomes

\* a stylesheet fetch and a font file fetch of the other family failed, and the
\* run captured all five mockups
C11_Witness ==
    \E g \in Gens :
        /\ cpc[g] = "done"
        /\ << 1, 0 >> \in fontFailed[g]
        /\ << 2, 1 >> \in fontFailed[g]
        /\ embeddedCss[g] = << [family |-> 2, dataUris |-> {2}] >>
        /\ \A m \in Mockups : outcome[g][m] = "ok"

FitCalled == calcArgs.fn = "fit" /\ Len(calcResult) = 1

\* C12: calculateFitDimensions returns a width of at most maxWidth and a height
\* of at most maxHeight with width * sourceHeight = height * sourceWidth, and
\* the width is maxWidth or the height is maxHeight.
C12_FitWithinBounds ==
    FitCalled =>
        LET fit == calcResult[1]
            maxW == Frac(calcArgs.maxWidth, 1)
            maxH == Frac(calcArgs.maxHeight, 1)
        IN  /\ FracLeq(fit.width, maxW)
            /\ FracLeq(fit.height, maxH)
            /\ fit.width.n * calcArgs.sourceHeight * fit.height.d
                   = fit.height.n * calcArgs.sourceWidth * fit.width.d
            /\ FracEq(fit.width, maxW) \/ FracEq(fit.height, maxH)

\* a source too tall for the box: the height is maxHeight, the width is smaller
\* than maxWidth and not whole
C12_Witness ==
    /\ FitCalled
    /\ FracEq(calcResult[1].height, Frac(calcArgs.maxHeight, 1))
    /\ ~FracLeq(Frac(calcArgs.maxWidth, 1), calcResult[1].width)
    /\ calcResult[1].width.n % calcResult[1].width.d # 0

GradientCalled == calcArgs.fn = "gradient" /\ Len(calcResult) = 1

\* c is sum / 2 rounded to a nearest integer
NearestToHalf(c, sum) == 2 * c - sum \in -1..1

\* C18: the color of step 25 of the 50 steps of the title gradient is, in each
\* channel, the average of the primary and the secondary channel value rounded
\* to the nearest integer.
C18_GradientMidpoint ==
    GradientCalled =>
        LET mid == calcResult[1][(gradientSteps \div 2) + 1]
        IN  /\ NearestToHalf(mid.r, calcArgs.primary.r + calcArgs.secondary.r)
            /\ NearestToHalf(mid.g, calcArgs.primary.g + calcArgs.secondary.g)
            /\ NearestToHalf(mid.b, calcArgs.primary.b + calcArgs.secondary.b)

\* primary #FF5733 and secondary #2C3E50: the midpoint is (150, 75, 66)
C18_Witness ==
    /\ GradientCalled
    /\ calcArgs.primary.hex = << "#", "F", "F", "5", "7", "3", "3" >>
    /\ calcArgs.secondary.hex = << "#", "2", "C", "3", "E", "5", "0" >>
    /\ calcResult[1][26] = [r |-> 150, g |-> 75, b |-> 66]

ShareCalled == calcArgs.fn = "share" /\ Len(calcResult) = 1

\* C19: the payload of generateShareUrl has the members version, meta (name and
\* generator), colors and typography only, and the share URL of a brandbook is
\* the share URL of the same brandbook with any other logo.
C19_ShareWithoutLogo ==
    ShareCalled =>
        LET payload == calcResult[1].data.text
        IN  /\ [i \in 1..Len(payload) |-> payload[i][1]]
                   = << "version", "meta", "colors", "typography" >>
            /\ [i \in 1..Len(payload[2][2]) |-> payload[2][2][i][1]]
                   = << "name", "generator" >>
            /\ \A l \in ShareLogos :
                   generateShareUrl([calcArgs.brandbook EXCEPT !.logo = l], BaseUrl)
                       = calcResult[1]

\* the share URL of a brandbook that has an SVG logo
C19_Witness ==
    /\ ShareCalled
    /\ calcArgs.brandbook.logo.svg
    /\ calcResult[1].data.padding = 0

\* C13: at most one of logo.svg and logo.png is non-null.
C13_OneLogoFormat == ~(logo.svg /\ logo.png)

\* the ordinal that a zero-padded two-digit label shows
OrdinalOf(label) == CHOOSE n \in 0..99 : addPageNumber(n) = label

\* the saved document of generation g was built from an unchanged profile
SavedUnchanged(g) == ReachedSave(g) /\ ~profileChanged[g]

\* C14: the document of a profile with a logo has one page more than the
\* document of the same profile without the logo and the same capture outcomes,
\* and the header label of every mockup page and of the QR page is one ordinal
\* higher in it.
C14_LogoShiftsLabels ==
    \A g \in Gens :
        (SavedUnchanged(g) /\ ~logoAtStart[g]) =>
            LET without == pages[g]
                with == SequentialDoc(TRUE, CapturedInOrder(g), qrOutcome[g] = "drawn")
            IN  /\ Len(with) = Len(without) + 1
                /\ \A i \in 4..Len(without) :
                       OrdinalOf(with[i + 1].header) = OrdinalOf(without[i].header) + 1

\* C15: in a saved document the footer index of every page after the title
\* page is the zero-padded position of that page in the document.
C15_FooterIsPosition ==
    \A g \in Gens :
        SavedUnchanged(g) =>
            \A i \in 2..Len(pages[g]) : pages[g][i].footer = addPageNumber(i)

Captured(out) == {m \in Mockups : out[m] = "ok"}

\* two saved documents were generated from the same unmodified Brand Profile
\* with the same capture outcomes
SameInputs(a, b) ==
    /\ ~a.changed /\ ~b.changed
    /\ a.logo = b.logo /\ a.name = b.name
    /\ Captured(a.outcome) = Captured(b.outcome)
    /\ (a.qr = "drawn") = (b.qr = "drawn")

\* C16: two generations from the same unmodified Brand Profile with the same
\* capture outcomes hand pdf.save the same pages (kinds, header labels, footer
\* indices, parts drawn) under the same file name.
C16_Deterministic ==
    (Len(savedDocs) = 2 /\ SameInputs(savedDocs[1], savedDocs[2])) =>
        /\ savedDocs[1].pages = savedDocs[2].pages
        /\ savedDocs[1].fileName = savedDocs[2].fileName

\* two saved documents of a profile with a logo, each with a logo page and a
\* mockup page left out
C16_Witness ==
    /\ Len(savedDocs) = 2 /\ SameInputs(savedDocs[1], savedDocs[2])
    /\ savedDocs[1].logo.svg
    /\ Len(savedDocs[2].pages) = 9
    /\ savedDocs[2].pages[4].kind = "logo"
    /\ savedDocs[2].fileName = << "m", "y", "-", "b", "r", "a", "n", "d", "-brandbook.pdf" >>

\* the records of PdfTiming
TimingRecords == << PdfTiming.marks, PdfTiming.durations, PdfTiming.mockupBreakdown >>

\* C17: 'enabled' stays what the query string made it at module load, and
\* while it is off no step of any generation changes marks, durations or
\* mockupBreakdown or prints a timing report.
C17_TimingOnlyInDebugMode ==
    [][ /\ PdfTiming'.enabled = PdfTiming.enabled
        /\ ~PdfTiming.enabled => /\ TimingRecords' = TimingRecords
                                 /\ timingReports' = timingReports ]_vars

\* without the debug parameter a second generation has saved its document
\* after capturing a mockup
C17_Witness ==
    /\ ~PdfTiming.enabled
    /\ gpc[2] = "resolved"
    /\ \E m \in Mockups : outcome[2][m] = "ok"
    /\ TimingRecords = << {}, {}, {} >>
    /\ timingReports = 0

\* the click of generation g got its answer: the document was saved or the
\* failure notification is shown, and the button is enabled
Answered(g) ==
    /\ hpc[g] = "done"
    /\ \/ saved[g] /\ toast[g] = "success"
       \/ toast[g] = "error"
    /\ ~btnDisabled

\* C20: when every awaited operation settles in the end, every click on the
\* export button leads to a saved document or to the failure notification,
\* with the button enabled again.
C20_ClickIsAnswered ==
    \A g \in Gens : (hpc[g] = "awaiting") ~> Answered(g)

\* a click was answered by a failure notification after a capture failed in
\* the same generation's captureMockups call
C20_Witness ==
    \E g \in Gens : /\ Answered(g)
                     /\ toast[g] = "error"
                     /\ \E m \in Mockups : outcome[g][m] \in FailedOutcomes

\* the ids of the capture list
MockupIds == {mockupConfigs[m].id : m \in Mockups}

\* generation g is the latest one and no capture run of an earlier one is
\* still going
AloneInCapture(g) == g = nextGen - 1 /\ \A h \in 1..(g - 1) : CapGone(h)

\* C21: with timing enabled, a generation has empty durations and
\* mockupBreakdown when it begins, and when its capture run has returned
\* mockupBreakdown has one entry for every mockup of the capture list, also
\* for a mockup whose capture threw or whose source node is missing.
C21_OneDurationPerMockup ==
    \A g \in Gens :
        PdfTiming.enabled /\ AloneInCapture(g) =>
            /\ gpc[g] \in {"preloadImg", "preloadNull"} =>
                   /\ PdfTiming.marks = {"generatePdf_total", "preloadLogo"}
                   /\ PdfTiming.durations = {}
                   /\ PdfTiming.mockupBreakdown = {}
            /\ cpc[g] = "done" => PdfTiming.mockupBreakdown = MockupIds

\* C22: no capture record has a zero width or height: a capture whose decoded
\* image has a zero dimension leaves no record in captures, no mockup page in
\* the document and no record for generateSingleMockupPdf to place.
C22_NoZeroDimension ==
    /\ \A g \in Gens : \A m \in zeroDims[g] :
           /\ \A i \in 1..Len(captures[g]) : captures[g][i] # m
           /\ ~HasMockupPage(g, m)
    /\ ~(spc = "save" /\ sZero)

\* C23: a page of one content type (palette, typography, logo, each mockup,
\* QR) carries the same header label in every saved document, with or without
\* the logo page and whichever captures failed.
C23_LabelsPreassigned ==
    \A i, j \in 1..Len(savedDocs) :
        \A a \in 1..Len(savedDocs[i].pages), b \in 1..Len(savedDocs[j].pages) :
            LET p == savedDocs[i].pages[a]
                q == savedDocs[j].pages[b]
            IN  PageKey(p) = PageKey(q) => p.header = q.header

\* C24: at every rasterization call of a capture run the staging container
\* holds one clone, that of the mockup being captured, and when the run has
\* ended the staging container and the overlay are out of the document.
C24_StagingReused ==
    \A g \in Gens :
        /\ cpc[g] = "raster" => staging[g] = << ck[g] >>
        /\ cpc[g] \in {"done", "collected"} => ~domIn[g]

\* the rasterization of a mockup is called after an earlier mockup of the run
\* was captured
C24_Witness ==
    \E g \in Gens :
        /\ cpc[g] = "raster"
        /\ \E m \in 1..(ck[g] - 1) : outcome[g][m] = "ok"
        /\ domIn[g]

\* the links appended for a family
LinksOf(fontFamily) == {i \in 1..Len(fontLinks) : fontLinks[i].family = fontFamily}

\* C25: document.head holds at most one stylesheet link per font family, and a
\* family in loadedFonts has a link that loaded.
C25_NoDuplicateLinks ==
    \A fontFamily \in FontFamilies :
        /\ Cardinality(LinksOf(fontFamily)) <= 1
        /\ fontFamily \in loadedFonts =>
               \E i \in LinksOf(fontFamily) : fontLinks[i].state = "loaded"

\* the capture loop (or the font embedding before it) of run g is going
CaptureRunning(g) == cpc[g] \in {"fonts", "timer", "raster", "decode"}

\* C26: when generatePdf has settled its capture run has finished, with the
\* staging container and overlay removed and console.error restored, so the
\* capture runs of two generations are never going together.
C26_SettledAfterCaptures ==
    /\ \A g \in Gens :
           GenGone(g) => /\ ~CaptureRunning(g)
                         /\ ~domIn[g]
                         /\ \A i \in 1..Len(consoleErr) : consoleErr[i] # g
    /\ Cardinality({g \in Gens : CaptureRunning(g)}) <= 1

\* the document of generation g has a logo page
HasLogoPage(g) == \E i \in 1..Len(pages[g]) : pages[g][i].kind = "logo"

\* C27: in a document handed to pdf.save the logo page, the footer index of
\* the first mockup page (5 with a logo, 4 without) and the header label and
\* footer index of the QR page (10 with a logo, 9 without) agree on whether
\* there is a logo, also when the logo was set or removed during the generation.
C27_LogoDecidedOnce ==
    \A g \in Gens :
        ReachedSave(g) =>
            LET n == IF HasLogoPage(g) THEN 1 ELSE 0
            IN  /\ \A i \in 2..Len(pages[g]) :
                       (pages[g][i].kind = "mockup" /\ pages[g][i - 1].kind # "mockup")
                           => pages[g][i].footer = addPageNumber(4 + n)
                /\ QrPageOf(g).header = addPageNumber(9 + n)
                /\ QrPageOf(g).footer = addPageNumber(9 + n)

\* no capture of a mockup node is going on
NoCaptureGoing == spc = "idle" /\ \A g \in Gens : ~CaptureRunning(g)

\* C28: the node of the tab the user selected last is the one active node
\* whenever no capture is going on: a capture run that starts with that one
\* node active ends with it, whatever tab switches happened during the run.
C28_TabSurvives ==
    (NoCaptureGoing /\ exists[lastSelected]) =>
        active = [m \in Mockups |-> m = lastSelected]

\* C29: whenever no captureMockups run is going, console.error is the
\* function it was before the first run, without a wrapper left on it.
C29_ConsoleRestored ==
    (\A g \in Gens : ~CaptureRunning(g)) => consoleErr = << >>

\* an import call ends in this step without a brandbook
ImportRefused ==
    /\ Len(importLog') = Len(importLog) + 1
    /\ importLog'[Len(importLog')] \in {"rejected", "null"}

\* C30: a step in which importFromFile rejects or importFromUrlData returns
\* null leaves the current brandbook and the localStorage copy as they were.
C30_RejectedImportKeepsProfile ==
    [][ ImportRefused => UNCHANGED << name, logo, stored >> ]_vars

\* an import was refused on a profile that had been edited and saved
C30_Witness ==
    /\ importLog # << >>
    /\ importLog[Len(importLog)] \in {"rejected", "null"}
    /\ name # DefaultName
    /\ getLogoUrl
    /\ stored = saveToLocalStorage(name, logo)
====
